---------------------------- MODULE Spec2Model ----------------------------
(***************************************************************************)
(* Model of the figure scripts of the ATC repository: the closed-form      *)
(* physics functions (time to target SNR, Gaussian delta approximation,    *)
(* momentum kernel, sombrero potential) and the stretched-exponential fit  *)
(* of the T1 decay script.                                                 *)
(*                                                                         *)
(* Numbers.  The scripts compute in IEEE doubles through numpy.  The model *)
(* computes exactly (no rounding) on values of the form                    *)
(*      (n/d) * sqrt(r) * ln(2)^(l/2) * exp(en/ed)                         *)
(* with n/d a reduced fraction, r a square-free positive integer, and      *)
(* keeps the IEEE special values +inf, -inf and nan with numpy's rules for *)
(* them (x/0 = +-inf, 0/0 = nan, 0*inf = nan, inf-inf = nan, sqrt(x<0) =   *)
(* nan; numpy warns and returns, it does not raise).  Rounding, overflow   *)
(* of the double range and the sign of zero are not modelled.              *)
(***************************************************************************)
EXTENDS Integers, Sequences, FiniteSets, TLC

VARIABLES
    mode,       \* which script or function is being run
    pc,         \* position in the running script
    args,       \* arguments of the call of the function under test
    ret,        \* value returned by that call
    system_params,  \* conventional_readout.py: the configuration being plotted
    times_to_snr,   \* conventional_readout.py: the array being computed
    lines,          \* conventional_readout.py: the (x, y) arrays handed to plt.plot, in order
    frame,      \* sombrero scripts: the frame being drawn (-1 before the first)
    mu,         \* sombrero_potential.py: mu of the frame
    Z,          \* sombrero_potential.py: the surface of the frame, on the sampled grid
    mu_sq,      \* sombrero_sonnet.py: mu_squared_values[frame]
    V,          \* sombrero_sonnet.py: the potential of the frame, on the sampled grid
    data,       \* plot_T1_decay_80K_2L.py: rows (time in ms, signal, error) of the CSV file
    t1,         \* plot_T1_decay_80K_2L.py: the script's variables
    fit,        \* the curve_fit call: its arguments and how it ended
    nfev,       \* inside curve_fit: calls of the model function made so far
    info,       \* inside curve_fit: termination code of the least-squares iteration
    fmin,       \* inside fminbound: the bracket [a, b], the best point xf and its value fx
    original_gif,   \* double_playback.py: the frames of the input GIF, in order
    frames,         \* double_playback.py: the list of copied frames
    durations,      \* double_playback.py: the list of halved durations
    output_gif      \* double_playback.py: the arguments of the save call

vars == <<mode, pc, args, ret, system_params, times_to_snr, lines, frame, mu, Z, mu_sq, V,
          data, t1, fit, nfev, info, fmin, original_gif, frames, durations, output_gif>>
ridgeVars == <<fmin>>
gifVars == <<original_gif, frames, durations, output_gif>>
t1Vars == <<data, t1, fit, nfev, info>>
readoutVars == <<system_params, times_to_snr, lines>>
callVars == <<args, ret>>
sombVars == <<frame, mu, Z, mu_sq, V>>

None == [k |-> "none"]

(***************************************************************************)
(* Exact arithmetic with the IEEE special values                           *)
(***************************************************************************)
Abs(x) == IF x < 0 THEN -x ELSE x

RECURSIVE GCD(_, _)
GCD(a, b) == IF b = 0 THEN a ELSE GCD(b, a % b)

\* The value (n/d) * sqrt(r) * ln(2)^(l/2) * exp(en/ed), in canonical form.
Fin(n, d, r, l, en, ed) ==
    IF n = 0
    THEN [k |-> "fin", n |-> 0, d |-> 1, r |-> 1, l |-> 0, en |-> 0, ed |-> 1]
    ELSE LET g  == GCD(Abs(n), Abs(d))
             s  == IF d < 0 THEN -1 ELSE 1
             ge == GCD(Abs(en), Abs(ed))
             se == IF ed < 0 THEN -1 ELSE 1
         IN  [k |-> "fin", n |-> s * (n \div g), d |-> s * (d \div g), r |-> r, l |-> l,
              en |-> se * (en \div ge), ed |-> se * (ed \div ge)]

Q(n, d) == Fin(n, d, 1, 0, 0, 1)
I(n) == Q(n, 1)
Inf(s) == [k |-> "inf", s |-> s]
NaN == [k |-> "nan"]

IsFin(a) == a.k = "fin"
IsInf(a) == a.k = "inf"
IsNaN(a) == a.k = "nan"
IsZero(a) == IsFin(a) /\ a.n = 0
IsRational(a) == IsFin(a) /\ a.r = 1 /\ a.l = 0 /\ a.en = 0
SameUnit(a, b) == a.r = b.r /\ a.l = b.l /\ a.en = b.en /\ a.ed = b.ed
Sign(a) == IF IsInf(a) THEN a.s ELSE IF a.n > 0 THEN 1 ELSE IF a.n < 0 THEN -1 ELSE 0

\* A value outside the representable form: evaluation stops (no such value
\* arises in the expressions modelled).
Unrepresentable == CHOOSE v \in {} : TRUE

MulFin(a, b) ==
    LET g  == GCD(a.r, b.r)
        g1 == GCD(Abs(a.n), b.d)
        g2 == GCD(Abs(b.n), a.d)
        n1 == (a.n \div g1) * (b.n \div g2)
        d1 == (a.d \div g2) * (b.d \div g1)
        g3 == GCD(g, d1)
        el == (a.ed \div GCD(a.ed, b.ed)) * b.ed
    IN  Fin(n1 * (g \div g3), d1 \div g3, (a.r \div g) * (b.r \div g), a.l + b.l,
            a.en * (el \div a.ed) + b.en * (el \div b.ed), el)

RecipFin(a) ==
    LET g == GCD(a.d, a.r)
    IN  Fin(a.d \div g, a.n * (a.r \div g), a.r, -a.l, -a.en, a.ed)

AddFin(a, b) ==
    IF IsZero(a) THEN b
    ELSE IF IsZero(b) THEN a
    ELSE IF SameUnit(a, b)
         THEN LET m == (a.d \div GCD(a.d, b.d)) * b.d
              IN  Fin(a.n * (m \div a.d) + b.n * (m \div b.d), m, a.r, a.l, a.en, a.ed)
         ELSE Unrepresentable

\* a * b
Mul(a, b) ==
    IF IsNaN(a) \/ IsNaN(b) THEN NaN
    ELSE IF IsInf(a) \/ IsInf(b)
         THEN IF IsZero(a) \/ IsZero(b) THEN NaN ELSE Inf(Sign(a) * Sign(b))
         ELSE MulFin(a, b)

\* a / b, numpy's float64 division: division by zero gives inf or nan
Div(a, b) ==
    IF IsNaN(a) \/ IsNaN(b) THEN NaN
    ELSE IF IsInf(b) THEN (IF IsInf(a) THEN NaN ELSE I(0))
    ELSE IF IsZero(b) THEN (IF IsZero(a) THEN NaN ELSE Inf(Sign(a)))
    ELSE IF IsInf(a) THEN Inf(Sign(a) * Sign(b))
    ELSE MulFin(a, RecipFin(b))

\* a + b
Add(a, b) ==
    IF IsNaN(a) \/ IsNaN(b) THEN NaN
    ELSE IF IsInf(a) /\ IsInf(b) THEN (IF a.s = b.s THEN a ELSE NaN)
    ELSE IF IsInf(a) THEN a
    ELSE IF IsInf(b) THEN b
    ELSE AddFin(a, b)

Neg(a) == IF IsNaN(a) THEN NaN ELSE IF IsInf(a) THEN Inf(-a.s) ELSE Mul(I(-1), a)
Sub(a, b) == Add(a, Neg(b))

\* a ** e for an integer e >= 1
RECURSIVE Pow(_, _)
Pow(a, e) == IF e = 1 THEN a ELSE Mul(a, Pow(a, e - 1))

\* the largest s with s*s dividing m (m >= 1), searched from s upwards
RECURSIVE SquarePart(_, _)
SquarePart(m, s) ==
    IF s * s > m THEN 1
    ELSE IF m % (s * s) = 0 THEN s * SquarePart(m \div (s * s), s)
    ELSE SquarePart(m, s + 1)

\* np.sqrt: nan for a negative argument
Sqrt(a) ==
    IF IsNaN(a) THEN NaN
    ELSE IF IsInf(a) THEN (IF a.s > 0 THEN a ELSE NaN)
    ELSE IF a.n < 0 THEN NaN
    ELSE IF IsZero(a) THEN a
    ELSE IF a.r # 1 \/ a.l % 2 # 0 THEN Unrepresentable
    ELSE LET sn == SquarePart(a.n, 2)
             sd == SquarePart(a.d, 2)
             mn == a.n \div (sn * sn)
             md == a.d \div (sd * sd)
         IN  Fin(sn, sd * md, mn * md, a.l \div 2, a.en, 2 * a.ed)

\* np.log(2)
LOG2 == Fin(1, 1, 1, 2, 0, 1)

\* 2 ** e for an integer e >= 0
RECURSIVE TwoTo(_)
TwoTo(e) == IF e = 0 THEN 1 ELSE 2 * TwoTo(e - 1)

\* np.exp: exp(k * ln 2) = 2 ** k for an integer k; exp of a fraction t is
\* kept as the factor exp(t)
Exp(a) ==
    IF IsNaN(a) THEN NaN
    ELSE IF IsInf(a) THEN (IF a.s > 0 THEN a ELSE I(0))
    ELSE IF IsZero(a) THEN I(1)
    ELSE IF IsRational(a) THEN Fin(1, 1, 1, 0, a.n, a.d)
    ELSE IF a.r = 1 /\ a.l = 2 /\ a.en = 0 /\ a.d = 1
         THEN (IF a.n > 0 THEN Q(TwoTo(a.n), 1) ELSE Q(1, TwoTo(-a.n)))
         ELSE Unrepresentable

\* a < b on values that can be compared (same unit, or an infinity)
Less(a, b) ==
    IF IsNaN(a) \/ IsNaN(b) THEN FALSE
    ELSE IF IsInf(a) THEN a.s < 0 /\ ~(IsInf(b) /\ b.s < 0)
    ELSE IF IsInf(b) THEN b.s > 0
    ELSE IF Sign(a) # Sign(b) THEN Sign(a) < Sign(b)
    ELSE IF IsZero(a) THEN FALSE
    ELSE IF SameUnit(a, b)
         THEN LET gn == GCD(Abs(a.n), Abs(b.n))
                  gd == GCD(a.d, b.d)
              IN  (a.n \div gn) * (b.d \div gd) < (b.n \div gn) * (a.d \div gd)
         ELSE Unrepresentable

\* a <= b: false when either side is nan
Leq(a, b) == ~IsNaN(a) /\ ~IsNaN(b) /\ (a = b \/ Less(a, b))

\* np.linspace(start, stop, num)[i], i = 0 .. num - 1
Linspace(start, stop, num, i) == Add(start, Mul(Q(i, num - 1), Sub(stop, start)))

(***************************************************************************)
(* conventional_readout.py                                                 *)
(***************************************************************************)
AcquisitionParams(rate, rtime, c) ==
    [photon_count_rate |-> rate, readout_time |-> rtime, contrast |-> c]

photons_per_readout(self) == Mul(self.photon_count_rate, self.readout_time)

\* mutant: the contrast divides the SNR instead of multiplying it
snr_per_readout_inverse_contrast(params) ==
    Div(Div(Sqrt(photons_per_readout(params)), params.contrast), Sqrt(I(2)))

snr_per_readout(params) ==
    Div(Mul(Mul(params.contrast, Sqrt(photons_per_readout(params))), I(1)), Sqrt(I(2)))

\* mutant: a zero SNR per readout is guarded and reported as zero readouts
n_readouts_zero_guard(params, target_snr) ==
    IF IsZero(snr_per_readout(params)) THEN I(0)
    ELSE Pow(Div(target_snr, snr_per_readout(params)), 2)

n_readouts(params, target_snr) == Pow(Div(target_snr, snr_per_readout(params)), 2)

acquisition_time(params, target_snr) ==
    Mul(n_readouts(params, target_snr), params.readout_time)

\* mutant: the evolution time is added once, not once per readout
calculate_time_to_snr_single_evolution(params, evolution_time, target_snr) ==
    Add(evolution_time, acquisition_time(params, target_snr))

calculate_time_to_snr(params, evolution_time, target_snr) ==
    Add(Mul(evolution_time, n_readouts(params, target_snr)),
        acquisition_time(params, target_snr))

\* Inputs of the function under test: the three configurations of the
\* script, and the degenerate and invalid values of each field.
Rates == {I(-50000), I(0), I(50000), I(200000), I(1500000)}
ReadoutTimes == {I(0), Q(1, 1000000), Q(1, 1000)}
Contrasts == {I(0), Q(2, 25), Q(3, 10), Q(1, 2), I(1)}
EvolutionTimes == {I(0), Q(1, 990), Q(1, 20), Q(1, 10)}
TargetSnrs == {I(0), I(1), I(5)}

TimeToSnrArgs ==
    [params : [photon_count_rate : Rates, readout_time : ReadoutTimes, contrast : Contrasts],
     evolution_time : EvolutionTimes, target_snr : TargetSnrs]

\* mutant: the call stores the photons per readout over the count rate
CallTimeToSnr_overwrites_rate ==
    /\ mode = "calculate_time_to_snr"
    /\ pc = "start"
    /\ ret' = calculate_time_to_snr(args.params, args.evolution_time, args.target_snr)
    /\ args' = [args EXCEPT !.params.photon_count_rate = photons_per_readout(args.params)]
    /\ pc' = "returned"
    /\ UNCHANGED <<mode, readoutVars, sombVars, t1Vars, ridgeVars, gifVars>>

CallTimeToSnr ==
    /\ mode = "calculate_time_to_snr"
    /\ pc = "start"
    /\ ret' = calculate_time_to_snr(args.params, args.evolution_time, args.target_snr)
    /\ pc' = "returned"
    /\ UNCHANGED <<mode, args, readoutVars, sombVars, t1Vars, ridgeVars, gifVars>>

\* __main__: three configurations, each evaluated over the same evolution
\* times and plotted.
target_snr == I(5)
NumEvolutionTimes == 100
\* np.linspace(0, 1e-1, 100)[i], i = 0 .. 99
evolution_times(i) == Linspace(I(0), Q(1, 10), NumEvolutionTimes, i)

\* mutant: the ensemble configuration keeps the single-NV count rate
Configurations_same_rate ==
    << AcquisitionParams(I(50000), Q(1, 1000000), Q(3, 10)),
       AcquisitionParams(I(200000), Q(1, 1000000), Q(3, 10)),
       AcquisitionParams(I(50000), Q(1, 1000000), Q(2, 25)) >>

Configurations ==
    << AcquisitionParams(I(50000), Q(1, 1000000), Q(3, 10)),
       AcquisitionParams(I(200000), Q(1, 1000000), Q(3, 10)),
       AcquisitionParams(I(1500000), Q(1, 1000000), Q(2, 25)) >>

\* system_params = AcquisitionParams(...)
MainSetParams ==
    /\ mode = "conventional_readout"
    /\ pc = "params"
    /\ Len(lines) < Len(Configurations)
    /\ system_params' = Configurations[Len(lines) + 1]
    /\ times_to_snr' = <<>>
    /\ pc' = "compute"
    /\ UNCHANGED <<mode, callVars, lines, sombVars, t1Vars, ridgeVars, gifVars>>

\* one element of the list comprehension over evolution_times
MainComputeTime ==
    /\ mode = "conventional_readout"
    /\ pc = "compute"
    /\ Len(times_to_snr) < NumEvolutionTimes
    /\ times_to_snr' = Append(times_to_snr,
           calculate_time_to_snr(system_params, evolution_times(Len(times_to_snr)), target_snr))
    /\ UNCHANGED <<mode, pc, callVars, system_params, lines, sombVars, t1Vars, ridgeVars, gifVars>>

\* plt.plot(evolution_times * 1e3, times_to_snr / 60, ...)
MainPlot ==
    /\ mode = "conventional_readout"
    /\ pc = "compute"
    /\ Len(times_to_snr) = NumEvolutionTimes
    /\ lines' = Append(lines,
           [x |-> [i \in 1..NumEvolutionTimes |-> Mul(evolution_times(i - 1), I(1000))],
            y |-> [i \in 1..NumEvolutionTimes |-> Div(times_to_snr[i], I(60))]])
    /\ pc' = IF Len(lines') = Len(Configurations) THEN "done" ELSE "params"
    /\ UNCHANGED <<mode, callVars, system_params, times_to_snr, sombVars, t1Vars, ridgeVars, gifVars>>

(***************************************************************************)
(* delta_function.py                                                       *)
(***************************************************************************)
\* mutant: width is used as the standard deviation, as the docstring says
sigma_of_width_as_std(width) == width

\* sigma = width / (2 * np.sqrt(2 * np.log(2)))
sigma_of_width(width) == Div(width, Mul(I(2), Sqrt(Mul(I(2), LOG2))))

delta_function(x, center, width, amplitude) ==
    LET sigma == sigma_of_width(width)
    IN  Mul(amplitude,
            Exp(Div(Neg(Pow(Sub(x, center), 2)), Mul(I(2), Pow(sigma, 2)))))

Centers == {I(0), I(1), Q(-3, 2)}
Widths == {Q(1, 20), Q(1, 10), I(1), I(3)}
Amplitudes == {I(1), Q(1, 2), I(3), I(-2), I(0)}
\* x is taken at center + h * width / 2, |h| <= MaxHalfWidths
MaxHalfWidths == 2

DeltaArgs ==
    {[x |-> Add(c, Mul(Q(h, 2), w)), center |-> c, width |-> w, amplitude |-> a] :
        c \in Centers, w \in Widths, a \in Amplitudes, h \in -MaxHalfWidths..MaxHalfWidths}

CallDeltaFunction ==
    /\ mode = "delta_function"
    /\ pc = "start"
    /\ ret' = delta_function(args.x, args.center, args.width, args.amplitude)
    /\ pc' = "returned"
    /\ UNCHANGED <<mode, args, readoutVars, sombVars, t1Vars, ridgeVars, gifVars>>

(***************************************************************************)
(* atc_plots_kernel.py, atc_plots.py                                       *)
(***************************************************************************)
\* f(q, d) = q**3 * np.exp(-2*q*d)
f(q, d) == Mul(Pow(q, 3), Exp(Mul(Mul(I(-2), q), d)))

KernelQs == {Q(1, 2), I(1), Q(3, 2), I(8)}
KernelDs == {I(-1), Q(-1, 2), I(0), Q(1, 2), I(1), Q(3, 2)}
KernelArgs == [q : KernelQs, d : KernelDs]

CallKernel ==
    /\ mode = "f"
    /\ pc = "start"
    /\ ret' = f(args.q, args.d)
    /\ pc' = "returned"
    /\ UNCHANGED <<mode, args, readoutVars, sombVars, t1Vars, ridgeVars, gifVars>>

\* Comparison of two values of f.  A value q**3 * exp(-2*q*d) with rational
\* q and d is (n/d) * exp(e) with n and d perfect cubes; two of them are
\* ordered as their cube roots c1 * exp(e1), c2 * exp(e2) are, that is as
\* c1 / c2 and exp(e2 - e1) are, and exp of a rational is enclosed between
\* partial sums of its series.
RECURSIVE CubeRootFrom(_, _)
CubeRootFrom(m, c) == IF c * c * c >= m THEN c ELSE CubeRootFrom(m, c + 1)

CubeRoot(m) ==
    LET c == CubeRootFrom(m, 1)
    IN  IF c * c * c = m THEN c ELSE Unrepresentable

RECURSIVE Factorial(_)
Factorial(n) == IF n = 0 THEN 1 ELSE n * Factorial(n - 1)

\* 1 + y + y^2/2! + ... + y^n/n!
RECURSIVE ExpSeries(_, _)
ExpSeries(y, n) ==
    IF n = 0 THEN I(1) ELSE Add(ExpSeries(y, n - 1), Div(Pow(y, n), I(Factorial(n))))

\* a lower bound of exp(y), y > 0 (exp is increasing: beyond 3 the bound at 3)
ExpLo(y) == ExpSeries(IF Less(I(3), y) THEN I(3) ELSE y, 4)

\* an upper bound of exp(y), 0 < y < 6: the series after y^4/4! is below
\* y^5/5! * 1/(1 - y/6)
ExpHi(y) ==
    IF Less(y, I(6))
    THEN Add(ExpSeries(y, 4), Mul(Div(Pow(y, 5), I(Factorial(5))), Div(I(6), Sub(I(6), y))))
    ELSE Unrepresentable

\* rho < exp(y) for rationals rho > 0 and y
BelowExp(rho, y) ==
    IF IsZero(y) THEN Less(rho, I(1))
    ELSE IF Less(I(0), y)
         THEN IF Less(rho, ExpLo(y)) THEN TRUE
              ELSE IF Less(ExpHi(y), rho) THEN FALSE
              ELSE Unrepresentable
         ELSE LET inv == Div(I(1), rho)
                  my  == Neg(y)
              IN  IF Less(inv, ExpLo(my)) THEN FALSE
                  ELSE IF Less(ExpHi(my), inv) THEN TRUE
                  ELSE Unrepresentable

\* a < b for two positive values of f
KernelLess(a, b) ==
    LET ca == Q(CubeRoot(a.n), CubeRoot(a.d))
        cb == Q(CubeRoot(b.n), CubeRoot(b.d))
        ea == Q(a.en, 3 * a.ed)
        eb == Q(b.en, 3 * b.ed)
    IN  BelowExp(Div(ca, cb), Sub(eb, ea))

\* d_vals = np.linspace(0.5, 1.5, 200)
NumDVals == 200
d_vals(i) == Linspace(Q(1, 2), Q(3, 2), NumDVals, i)

\* One pass of "for d_val in d_vals":
\*     q_max = fminbound(lambda q: -f(q, d_val), 0.5, 8)
\* The pass is run for the first and the last value of d_vals.
RidgeDs == {d_vals(0), d_vals(NumDVals - 1)}
RidgeArgs == [d : RidgeDs]

\* lambda q: -f(q, d_val)
objective(q, d_val) == Neg(f(q, d_val))

\* mutant: the comparison is turned round, fu >= fx
ObjectiveLeq_reversed(fu, fx) == ~KernelLess(Neg(fx), Neg(fu))

\* fu <= fx for two values of the objective
ObjectiveLeq(fu, fx) == ~KernelLess(Neg(fu), Neg(fx))

\* fminbound (Brent's method in scipy.optimize, not part of the sources) is
\* modelled by what it keeps and tests: a bracket [a, b] inside the bounds, the
\* best point xf found so far, one evaluation per step at a trial point
\* strictly inside the bracket and at least tol1 away from xf, the update of
\* the bracket from the comparison fu <= fx, and the stopping test
\* |xf - (a+b)/2| <= tol2 - (b-a)/2.  The library's tolerance (xtol = 1e-5) is
\* coarsened to tol1, and the trial points are the points x1 + k * tol1; which
\* of them a step takes (golden section or parabolic fit in the library) is a
\* nondeterministic choice.  The library's cap of 500 evaluations is not
\* reached: every step shrinks the bracket by at least tol1.
fmin_x1 == Q(1, 2)
fmin_x2 == I(8)
fmin_tol1 == Q(1, 4)
fmin_tol2 == Mul(I(2), fmin_tol1)

TrialPoints ==
    {x \in {Add(fmin_x1, Mul(I(k), fmin_tol1)) : k \in 1..Div(Sub(fmin_x2, fmin_x1), fmin_tol1).n} :
        Less(x, fmin_x2)}

\* golden_mean = 0.5 * (3.0 - sqrt(5.0)), to six places
golden_mean == Q(381966, 1000000)

\* the first point a + golden_mean * (b - a), to within tol1
FirstPoints ==
    LET g == Add(fmin_x1, Mul(golden_mean, Sub(fmin_x2, fmin_x1)))
    IN  {x \in TrialPoints : Less(Sub(g, fmin_tol1), x) /\ Less(x, Add(g, fmin_tol1))}

\* not "while abs(xf - xm) > tol2 - 0.5 * (b - a)", with xm = 0.5 * (a + b)
FminConverged(s) ==
    /\ Leq(Sub(s.xf, s.a), fmin_tol2)
    /\ Leq(Sub(s.b, s.xf), fmin_tol2)

FminboundCall ==
    /\ mode = "fminbound"
    /\ pc = "start"
    /\ \E x \in FirstPoints :
         fmin' = [a |-> fmin_x1, b |-> fmin_x2, xf |-> x, fx |-> objective(x, args.d)]
    /\ pc' = "search"
    /\ UNCHANGED <<mode, callVars, readoutVars, sombVars, t1Vars, gifVars>>

\* fu = func(x); if fu <= fx: the bracket end behind xf moves to xf and x
\* becomes the best point; else the bracket end on the side of x moves to x
FminboundStep ==
    /\ mode = "fminbound"
    /\ pc = "search"
    /\ ~FminConverged(fmin)
    /\ \E x \in TrialPoints :
         /\ Less(fmin.a, x) /\ Less(x, fmin.b) /\ x # fmin.xf
         /\ LET fu == objective(x, args.d)
            IN  fmin' = IF ObjectiveLeq(fu, fmin.fx)
                        THEN IF Leq(fmin.xf, x)
                             THEN [fmin EXCEPT !.a = fmin.xf, !.xf = x, !.fx = fu]
                             ELSE [fmin EXCEPT !.b = fmin.xf, !.xf = x, !.fx = fu]
                        ELSE IF Less(x, fmin.xf)
                             THEN [fmin EXCEPT !.a = x]
                             ELSE [fmin EXCEPT !.b = x]
    /\ UNCHANGED <<mode, pc, callVars, readoutVars, sombVars, t1Vars, gifVars>>

\* return xf; q_max = ...
FminboundReturn ==
    /\ mode = "fminbound"
    /\ pc = "search"
    /\ FminConverged(fmin)
    /\ ret' = fmin.xf
    /\ fmin' = None
    /\ pc' = "returned"
    /\ UNCHANGED <<mode, args, readoutVars, sombVars, t1Vars, gifVars>>

(***************************************************************************)
(* sombrero_potential.py, sombrero_sonnet.py                               *)
(***************************************************************************)
\* Both scripts evaluate the potential on a 100 x 100 mesh; the model keeps
\* every GridStride-th mesh point of each axis.
GridPoints == 100
GridStride == 11
SampleIndex == {i \in 0..GridPoints - 1 : i % GridStride = 0}
SamplePoints == SampleIndex \X SampleIndex

\* sombrero_potential.py
potential_n_frames == 60
potential_x(i) == Linspace(I(-3), I(3), GridPoints, i)
potential_y(j) == Linspace(I(-3), I(3), GridPoints, j)

\* mutant: mu is interpolated over a range of 2.0 and stops short of zero
potential_mu_range_two(fr) == Sub(I(2), Mul(Q(fr, potential_n_frames), I(2)))

\* mu = 2.0 - (frame / n_frames) * 2.5
potential_mu(fr) == Sub(I(2), Mul(Q(fr, potential_n_frames), Q(5, 2)))

\* mutant: the quartic term is subtracted
potential_Z_minus_quartic(x, y, m) ==
    LET r_squared == Add(Pow(x, 2), Pow(y, 2))
    IN  Sub(Mul(m, r_squared), Pow(r_squared, 2))

\* r_squared = X**2 + Y**2; Z = mu * r_squared + r_squared**2
potential_Z(x, y, m) ==
    LET r_squared == Add(Pow(x, 2), Pow(y, 2))
    IN  Add(Mul(m, r_squared), Pow(r_squared, 2))

\* one pass of the loop "for frame in range(n_frames)"
PotentialFrame ==
    /\ mode = "sombrero_potential"
    /\ pc = "loop"
    /\ frame + 1 < potential_n_frames
    /\ frame' = frame + 1
    /\ mu' = potential_mu(frame')
    /\ Z' = [p \in SamplePoints |-> potential_Z(potential_x(p[1]), potential_y(p[2]), mu')]
    /\ UNCHANGED <<mode, pc, callVars, readoutVars, mu_sq, V, t1Vars, ridgeVars, gifVars>>

\* writer.finish()
PotentialFinish ==
    /\ mode = "sombrero_potential"
    /\ pc = "loop"
    /\ frame + 1 = potential_n_frames
    /\ pc' = "done"
    /\ UNCHANGED <<mode, callVars, readoutVars, sombVars, t1Vars, ridgeVars, gifVars>>

\* sombrero_sonnet.py
sonnet_n_frames == 30
sonnet_x(i) == Linspace(I(-3), I(3), GridPoints, i)
sonnet_y(j) == Linspace(I(0), I(3), GridPoints, j)
mu_squared_values(fr) == Linspace(Q(-1, 2), I(3), sonnet_n_frames, fr)
lambda_param == Q(1, 2)

\* mutant: the quartic term loses its coefficient lambda_param
sonnet_V_unit_lambda(x, y, msq) ==
    LET r_squared == Add(Pow(x, 2), Pow(y, 2))
    IN  Add(Mul(Neg(msq), r_squared), Pow(r_squared, 2))

\* r_squared = X**2 + Y**2; V = -mu_sq * r_squared + lambda_param * r_squared**2
sonnet_V(x, y, msq) ==
    LET r_squared == Add(Pow(x, 2), Pow(y, 2))
    IN  Add(Mul(Neg(msq), r_squared), Mul(lambda_param, Pow(r_squared, 2)))

\* update(frame), called by the animation for frame = 0 .. n_frames - 1
SonnetUpdate ==
    /\ mode = "sombrero_sonnet"
    /\ pc = "loop"
    /\ frame + 1 < sonnet_n_frames
    /\ frame' = frame + 1
    /\ mu_sq' = mu_squared_values(frame')
    /\ V' = [p \in SamplePoints |-> sonnet_V(sonnet_x(p[1]), sonnet_y(p[2]), mu_sq')]
    /\ UNCHANGED <<mode, pc, callVars, readoutVars, mu, Z, t1Vars, ridgeVars, gifVars>>

\* anim.save(...) returns after the last frame
SonnetFinish ==
    /\ mode = "sombrero_sonnet"
    /\ pc = "loop"
    /\ frame + 1 = sonnet_n_frames
    /\ pc' = "done"
    /\ UNCHANGED <<mode, callVars, readoutVars, sombVars, t1Vars, ridgeVars, gifVars>>

(***************************************************************************)
(* plot_T1_decay_80K_2L.py                                                 *)
(***************************************************************************)
\* The CSV file is not part of the sources: three sample series stand for it
\* (times in ms; the second has a zero signal column, the third is not
\* sorted and has its largest signal in the middle).
SampleSeries ==
    { << <<I(0), I(2), Q(1, 10)>>, <<Q(1, 100), Q(3, 2), Q(1, 10)>>,
         <<Q(1, 20), I(1), Q(1, 5)>>, <<Q(1, 10), Q(1, 2), Q(1, 10)>> >>,
      << <<Q(1, 100), I(0), Q(1, 10)>>, <<Q(1, 50), I(0), Q(1, 10)>>,
         <<Q(3, 100), I(0), Q(1, 10)>> >>,
      << <<Q(1, 50), I(-1), Q(1, 5)>>, <<Q(1, 200), I(3), Q(1, 10)>>,
         <<Q(1, 10), I(1), Q(1, 4)>> >> }

Column(rows, c) == [i \in 1..Len(rows) |-> rows[i][c]]
\* ndarray.max(), ndarray.min()
ArrMax(a) == CHOOSE m \in {a[i] : i \in 1..Len(a)} : \A i \in 1..Len(a) : Leq(a[i], m)
ArrMin(a) == CHOOSE m \in {a[i] : i \in 1..Len(a)} : \A i \in 1..Len(a) : Leq(m, a[i])

\* time_ms = data[:, 0]; time_us = time_ms * 1000.0; signal = data[:, 1];
\* error = data[:, 2]
T1Load ==
    /\ mode = "plot_T1_decay"
    /\ pc = "load"
    /\ LET time_ms == Column(data, 1)
       IN  t1' = [t1 EXCEPT !.time_ms = time_ms,
                            !.time_us = [i \in 1..Len(time_ms) |-> Mul(time_ms[i], I(1000))],
                            !.signal = Column(data, 2),
                            !.error = Column(data, 3)]
    /\ pc' = "guess"
    /\ UNCHANGED <<mode, callVars, readoutVars, sombVars, data, fit, nfev, info, ridgeVars, gifVars>>

\* mutant: tau0 is taken from the times in milliseconds
initial_guess_ms(t) ==
    << ArrMax(t.signal), Div(Sub(ArrMax(t.time_ms), ArrMin(t.time_ms)), I(2)), I(1) >>

\* A0 = signal.max(); tau0 = (time_us.max() - time_us.min()) / 2; gamma0 = 1.0
initial_guess(t) ==
    << ArrMax(t.signal), Div(Sub(ArrMax(t.time_us), ArrMin(t.time_us)), I(2)), I(1) >>

T1Guess ==
    /\ mode = "plot_T1_decay"
    /\ pc = "guess"
    /\ t1' = [t1 EXCEPT !.p0 = initial_guess(t1)]
    /\ pc' = "fit"
    /\ UNCHANGED <<mode, callVars, readoutVars, sombVars, data, fit, nfev, info, ridgeVars, gifVars>>

\* curve_fit(stretched_exp, time_us, signal, sigma=error, p0=p0,
\*           absolute_sigma=True, maxfev=10000)
\* The call enters the Levenberg-Marquardt iteration of the library (MINPACK
\* lmdif behind scipy.optimize.leastsq), which is not part of the sources; it
\* is modelled by its evaluation counting and its termination tests, the
\* numerical outcome of each test being a nondeterministic choice.
maxfev == 10000
NumParams == 3

T1CallCurveFit ==
    /\ mode = "plot_T1_decay"
    /\ pc = "fit"
    /\ fit' = [xdata |-> t1.time_us, ydata |-> t1.signal, sigma |-> t1.error,
               p0 |-> t1.p0, absolute_sigma |-> TRUE, maxfev |-> maxfev, outcome |-> "running"]
    /\ nfev' = 1
    /\ info' = 0
    /\ pc' = "lm_outer"
    /\ UNCHANGED <<mode, callVars, readoutVars, sombVars, data, t1, ridgeVars, gifVars>>

\* mutant: the evaluation budget is never found exhausted
BudgetReached_never(n) == FALSE

\* "if (nfev .ge. maxfev) info = 5"
BudgetReached(n) == n >= fit.maxfev

\* outer iteration: the forward-difference Jacobian costs one evaluation per
\* parameter; then the gradient test (info = 4) may end the iteration
LmJacobian ==
    /\ mode = "plot_T1_decay"
    /\ pc = "lm_outer"
    /\ nfev' = nfev + NumParams
    /\ \/ info' = 4 /\ pc' = "lm_exit"
       \/ info' = 0 /\ pc' = "lm_inner"
    /\ UNCHANGED <<mode, callVars, readoutVars, sombVars, data, t1, fit, ridgeVars, gifVars>>

\* inner iteration: one evaluation at the trial point, the convergence tests
\* (info = 1, 2, 3), then the budget test (info = 5) and the tolerance tests
\* (info = 6, 7, 8); an unsuccessful step repeats the inner iteration, a
\* successful one starts the next outer iteration
LmTrial ==
    /\ mode = "plot_T1_decay"
    /\ pc = "lm_inner"
    /\ nfev' = nfev + 1
    /\ \/ info' \in {1, 2, 3} /\ pc' = "lm_exit"
       \/ BudgetReached(nfev') /\ info' = 5 /\ pc' = "lm_exit"
       \/ info' \in {6, 7, 8} /\ pc' = "lm_exit"
       \/ ~BudgetReached(nfev') /\ info' = 0 /\ pc' \in {"lm_inner", "lm_outer"}
    /\ UNCHANGED <<mode, callVars, readoutVars, sombVars, data, t1, fit, ridgeVars, gifVars>>

\* Values the library may hand back for a converged fit.
Popts == { <<I(2), I(50), Q(4, 5)>>, <<I(1), I(10), I(1)>> }
Pcovs ==
    { << <<Q(1, 100), I(0), I(0)>>, <<I(0), I(4), Q(-1, 10)>>, <<I(0), Q(-1, 10), Q(1, 400)>> >>,
      << <<I(2), I(0), I(0)>>, <<I(0), Q(9, 2), I(0)>>, <<I(0), I(0), Q(3, 25)>> >> }
\* pcov filled with inf: the covariance could not be estimated
PcovInf == [i \in 1..NumParams |-> [j \in 1..NumParams |-> Inf(1)]]

\* ier in 1..4: curve_fit returns popt and pcov; a singular Jacobian gives
\* pcov = inf and an OptimizeWarning, and the call still returns
CurveFitReturn ==
    /\ mode = "plot_T1_decay"
    /\ pc = "lm_exit"
    /\ info \in 1..4
    /\ \E po \in Popts :
         \/ \E pv \in Pcovs :
               /\ t1' = [t1 EXCEPT !.popt = po, !.pcov = pv]
               /\ fit' = [fit EXCEPT !.outcome = "converged"]
         \/ /\ t1' = [t1 EXCEPT !.popt = po, !.pcov = PcovInf]
            /\ fit' = [fit EXCEPT !.outcome = "singular_covariance"]
    /\ nfev' = 0
    /\ info' = 0
    /\ pc' = "perr"
    /\ UNCHANGED <<mode, callVars, readoutVars, sombVars, data, ridgeVars, gifVars>>

\* ier not in 1..4: curve_fit raises RuntimeError("Optimal parameters not
\* found: ..."); the script has no handler and ends
CurveFitRaise ==
    /\ mode = "plot_T1_decay"
    /\ pc = "lm_exit"
    /\ info \notin 1..4
    /\ fit' = [fit EXCEPT !.outcome = "not_converged"]
    /\ nfev' = 0
    /\ info' = 0
    /\ pc' = "raised"
    /\ UNCHANGED <<mode, callVars, readoutVars, sombVars, data, t1, ridgeVars, gifVars>>

\* perr = np.sqrt(np.diag(pcov))
T1Perr ==
    /\ mode = "plot_T1_decay"
    /\ pc = "perr"
    /\ t1' = [t1 EXCEPT !.perr = [i \in 1..NumParams |-> Sqrt(t1.pcov[i][i])]]
    /\ pc' = "curve"
    /\ UNCHANGED <<mode, callVars, readoutVars, sombVars, data, fit, nfev, info, ridgeVars, gifVars>>

\* fit_time_us = np.linspace(time_us.min(), time_us.max(), 200)
\* fit_signal = stretched_exp(fit_time_us, *popt): the curve is kept by its
\* parameters and its end points
T1FitCurve ==
    /\ mode = "plot_T1_decay"
    /\ pc = "curve"
    /\ t1' = [t1 EXCEPT !.fit_signal =
                 [A |-> t1.popt[1], tau |-> t1.popt[2], gamma |-> t1.popt[3],
                  from |-> ArrMin(t1.time_us), to |-> ArrMax(t1.time_us)]]
    /\ pc' = "plot"
    /\ UNCHANGED <<mode, callVars, readoutVars, sombVars, data, fit, nfev, info, ridgeVars, gifVars>>

\* SHOW_PARAMS_DEFAULT = False
SHOW_PARAMS_DEFAULT == FALSE

\* the two texts of the legend: the equation, and the fitted values with
\* their errors (kept as the numbers they are formatted from)
eq_legend == [text |-> "S(tau) = A exp(-(tau/T1)^gamma)"]
params_legend(t) == [A_fit |-> t.popt[1], tau_fit |-> t.popt[2], gamma_fit |-> t.popt[3],
                     perr |-> t.perr]

\* parser.add_argument('--hide-params', action='store_true');
\* args, _ = parser.parse_known_args(): the flag is on the command line or not
T1ParseArgs ==
    /\ mode = "plot_T1_decay"
    /\ pc = "plot"
    /\ \E hide_params \in BOOLEAN : t1' = [t1 EXCEPT !.hide_params = hide_params]
    /\ pc' = "label"
    /\ UNCHANGED <<mode, callVars, readoutVars, sombVars, data, fit, nfev, info, ridgeVars, gifVars>>

\* show_params = SHOW_PARAMS_DEFAULT and not args.hide_params
show_params(t) == SHOW_PARAMS_DEFAULT /\ ~t.hide_params

\* fit_label = eq_legend if not show_params else (eq_legend + "\n" + params_legend)
fit_label(t) == IF ~show_params(t) THEN <<eq_legend>> ELSE <<eq_legend, params_legend(t)>>

\* plt.plot(fit_time_us, fit_signal, ..., label=fit_label); plt.legend(...);
\* plt.savefig(...)
T1Plot ==
    /\ mode = "plot_T1_decay"
    /\ pc = "label"
    /\ t1' = [t1 EXCEPT !.show_params = show_params(t1), !.fit_label = fit_label(t1)]
    /\ pc' = "done"
    /\ UNCHANGED <<mode, callVars, readoutVars, sombVars, data, fit, nfev, info, ridgeVars, gifVars>>

(***************************************************************************)
(* double_playback.py                                                      *)
(***************************************************************************)
\* A frame of the opened image: its picture and its info dictionary, a set of
\* <<key, value>> pairs.  The GIF reader gives a frame the key "duration"
\* only when the file gives the frame a delay, as 10 * the delay, which the
\* file holds in hundredths of a second.
GifPictures == {"A", "B"}
GifDelays == {0, 1, 3, 10}
GifInfos == {{}} \cup {{<<"duration", 10 * cs>>} : cs \in GifDelays}
GifFrames == [picture : GifPictures, info : GifInfos]
MaxGifFrames == 3
GifInputs == UNION {[1..n -> GifFrames] : n \in 1..MaxGifFrames}

\* dict.get(key, default)
InfoGet(dict, key, default) ==
    IF \E p \in dict : p[1] = key
    THEN (CHOOSE p \in dict : p[1] = key)[2]
    ELSE default

Max(a, b) == IF a >= b THEN a ELSE b

\* frame_duration = frame.info.get('duration', 100)
frame_duration(fr) == InfoGet(fr.info, "duration", 100)

\* max(1, frame_duration // 2)
halved_duration(fr) == Max(1, frame_duration(fr) \div 2)

\* one pass of "for frame in ImageSequence.Iterator(original_gif)"
GifNextFrame ==
    /\ mode = "double_gif_speed"
    /\ pc = "loop"
    /\ Len(frames) < Len(original_gif)
    /\ LET fr == original_gif[Len(frames) + 1]
       IN  /\ frames' = Append(frames, fr.picture)
           /\ durations' = Append(durations, halved_duration(fr))
    /\ UNCHANGED <<mode, pc, callVars, readoutVars, sombVars, t1Vars, ridgeVars,
                   original_gif, output_gif>>

\* The GIF writer of the imaging library (not part of the sources), as it
\* treats the frames and the list of durations handed to save: a frame equal
\* to the one before it is not written, its duration is added to that of the
\* frame before; the delay of a written frame is its duration in whole
\* hundredths of a second, int(duration / 10).  The written frames are kept
\* as a reader finds them: picture, and duration 10 * delay.
RECURSIVE GifMergeFrames(_, _, _)
GifMergeFrames(pictures, durs, merged) ==
    IF pictures = <<>> THEN merged
    ELSE IF merged # <<>> /\ merged[Len(merged)].picture = Head(pictures)
         THEN GifMergeFrames(Tail(pictures), Tail(durs),
                  [merged EXCEPT ![Len(merged)].duration = @ + Head(durs)])
         ELSE GifMergeFrames(Tail(pictures), Tail(durs),
                  Append(merged, [picture |-> Head(pictures), duration |-> Head(durs)]))

GifWrite(pictures, durs) ==
    LET merged == GifMergeFrames(pictures, durs, <<>>)
    IN  [i \in 1..Len(merged) |->
            [picture |-> merged[i].picture, duration |-> 10 * (merged[i].duration \div 10)]]

\* frames[0].save(output_path, save_all=True, append_images=frames[1:],
\*                duration=durations, loop=0, disposal=2)
GifSave ==
    /\ mode = "double_gif_speed"
    /\ pc = "loop"
    /\ Len(frames) = Len(original_gif)
    /\ output_gif' = [image |-> frames[1], append_images |-> Tail(frames),
                      duration |-> durations, loop |-> 0, disposal |-> 2,
                      file |-> GifWrite(<<frames[1]>> \o Tail(frames), durations)]
    /\ pc' = "done"
    /\ UNCHANGED <<mode, callVars, readoutVars, sombVars, t1Vars, ridgeVars,
                   original_gif, frames, durations>>

Modes == {"calculate_time_to_snr", "conventional_readout", "delta_function", "f",
          "fminbound", "sombrero_potential", "sombrero_sonnet", "plot_T1_decay",
          "double_gif_speed"}

Init ==
    /\ mode \in Modes
    /\ pc = CASE mode = "conventional_readout" -> "params"
              [] mode \in {"sombrero_potential", "sombrero_sonnet", "double_gif_speed"} -> "loop"
              [] mode = "plot_T1_decay" -> "load"
              [] OTHER -> "start"
    /\ ret = None
    /\ args \in CASE mode = "calculate_time_to_snr" -> TimeToSnrArgs
                  [] mode = "delta_function" -> DeltaArgs
                  [] mode = "f" -> KernelArgs
                  [] mode = "fminbound" -> RidgeArgs
                  [] OTHER -> {None}
    /\ system_params = None
    /\ times_to_snr = <<>>
    /\ lines = <<>>
    /\ frame = -1
    /\ mu = None
    /\ Z = None
    /\ mu_sq = None
    /\ V = None
    /\ data \in IF mode = "plot_T1_decay" THEN SampleSeries ELSE {<<>>}
    /\ t1 = [time_ms |-> None, time_us |-> None, signal |-> None, error |-> None,
             p0 |-> None, popt |-> None, pcov |-> None, perr |-> None, fit_signal |-> None,
             hide_params |-> None, show_params |-> None, fit_label |-> None]
    /\ fit = None
    /\ nfev = 0
    /\ info = 0
    /\ fmin = None
    /\ original_gif \in IF mode = "double_gif_speed" THEN GifInputs ELSE {<<>>}
    /\ frames = <<>>
    /\ durations = <<>>
    /\ output_gif = None

Next ==
    \/ CallTimeToSnr
    \/ MainSetParams
    \/ MainComputeTime
    \/ MainPlot
    \/ CallDeltaFunction
    \/ CallKernel
    \/ FminboundCall
    \/ FminboundStep
    \/ FminboundReturn
    \/ PotentialFrame
    \/ PotentialFinish
    \/ SonnetUpdate
    \/ SonnetFinish
    \/ T1Load
    \/ T1Guess
    \/ T1CallCurveFit
    \/ LmJacobian
    \/ LmTrial
    \/ CurveFitReturn
    \/ CurveFitRaise
    \/ T1Perr
    \/ T1FitCurve
    \/ T1ParseArgs
    \/ T1Plot
    \/ GifNextFrame
    \/ GifSave

Spec == Init /\ [][Next]_vars

\* A call of curve_fit that has started keeps running until it returns or
\* raises.
CurveFitStep == LmJacobian \/ LmTrial \/ CurveFitReturn \/ CurveFitRaise
FairSpec == Spec /\ WF_vars(CurveFitStep)

(***************************************************************************)
(* Properties of calculate_time_to_snr                                     *)
(***************************************************************************)
Returned(fn) == mode = fn /\ pc = "returned"

\* the claimed closed form: requiredReadouts * (evolution_time + readout_time)
ClosedFormTime(a) ==
    Mul(n_readouts(a.params, a.target_snr), Add(a.evolution_time, a.params.readout_time))

\* requiredReadouts is infinite and exactly one of the two times is zero
OneZeroFactor(a) ==
    /\ IsInf(n_readouts(a.params, a.target_snr))
    /\ IsZero(a.evolution_time) # IsZero(a.params.readout_time)

\* C1 (as stated): for every input, calculate_time_to_snr returns
\* requiredReadouts * (evolution_time + readout_time).
C1_ClosedFormEveryInput ==
    Returned("calculate_time_to_snr") => ret = ClosedFormTime(args)

\* C1 (amended): calculate_time_to_snr returns requiredReadouts *
\* (evolution_time + readout_time) for every input except those where
\* requiredReadouts is infinite and exactly one of evolution_time and
\* readout_time is zero; there the sum of products is nan and the closed form
\* is infinite.
C1_ClosedForm ==
    Returned("calculate_time_to_snr") =>
        IF OneZeroFactor(args)
        THEN IsNaN(ret) /\ IsInf(ClosedFormTime(args))
        ELSE ret = ClosedFormTime(args)

C1_Witness ==
    /\ Returned("calculate_time_to_snr")
    /\ IsFin(ret) /\ ~IsZero(ret)
    /\ ~IsZero(args.evolution_time)
    /\ args.params.contrast = Q(3, 10)

ValidArgs(a) ==
    /\ Less(I(0), a.params.photon_count_rate)
    /\ Less(I(0), a.params.readout_time)
    /\ Less(I(0), a.params.contrast) /\ Leq(a.params.contrast, I(1))
    /\ Leq(I(0), a.evolution_time)
    /\ Less(I(0), a.target_snr)

WithContrast(a, c) ==
    calculate_time_to_snr([a.params EXCEPT !.contrast = c], a.evolution_time, a.target_snr)

\* C2: with positive rate, readout time and target, a non-negative evolution
\* time and a contrast in (0, 1], the time is positive and finite, and every
\* larger contrast gives a strictly smaller time.
C2_DecreasingInContrast ==
    (Returned("calculate_time_to_snr") /\ ValidArgs(args)) =>
        /\ IsFin(ret) /\ Less(I(0), ret)
        /\ \A c \in Contrasts :
              (Less(args.params.contrast, c) /\ Leq(c, I(1))) => Less(WithContrast(args, c), ret)

C2_Witness ==
    /\ Returned("calculate_time_to_snr") /\ ValidArgs(args)
    /\ args.params.contrast = Q(2, 25)
    /\ Less(WithContrast(args, Q(3, 10)), ret)

\* C4: with contrast = 0 or photon_count_rate = 0 the call does not return a
\* finite time (it returns inf or nan).
C4_ZeroSnrNotFinite ==
    (Returned("calculate_time_to_snr")
        /\ (IsZero(args.params.contrast) \/ IsZero(args.params.photon_count_rate)))
    => (IsInf(ret) \/ IsNaN(ret))

C4_Witness ==
    /\ Returned("calculate_time_to_snr")
    /\ IsZero(args.params.contrast)
    /\ Less(I(0), args.params.photon_count_rate)
    /\ IsInf(ret)

(***************************************************************************)
(* Properties of AcquisitionParams                                         *)
(***************************************************************************)
\* C13: no step changes a field of an AcquisitionParams value: a call of
\* calculate_time_to_snr leaves its params argument as it was, and the script
\* changes system_params only by constructing the next configuration.
C13_ParamsUnchanged ==
    [][/\ mode = "calculate_time_to_snr" => args'.params = args.params
       /\ (mode = "conventional_readout" /\ pc = "compute") => system_params' = system_params
      ]_vars

C13_Witness ==
    /\ Returned("calculate_time_to_snr")
    /\ args.params = AcquisitionParams(I(200000), Q(1, 1000000), Q(3, 10))
    /\ args.evolution_time = Q(1, 20)
    /\ IsFin(ret) /\ Less(I(0), ret)

(***************************************************************************)
(* Properties of the conventional_readout.py figure                        *)
(***************************************************************************)
MainDone == mode = "conventional_readout" /\ pc = "done"

\* C3 (as stated): at every plotted evolution time the 50k cps, 30 % contrast
\* configuration needs less total time than the 1.5M cps, 8 % contrast one.
C3_HighContrastFaster ==
    MainDone => \A i \in 1..NumEvolutionTimes : Less(lines[1].y[i], lines[3].y[i])

\* C3 (amended): at every plotted evolution time the 50k cps, 30 % contrast
\* configuration needs more total time than the 1.5M cps, 8 % contrast one
\* (32/15 times as much).
C3_HighContrastSlower ==
    MainDone => \A i \in 1..NumEvolutionTimes :
        /\ Less(lines[3].y[i], lines[1].y[i])
        /\ Mul(I(15), lines[1].y[i]) = Mul(I(32), lines[3].y[i])

C3_Witness ==
    /\ MainDone
    /\ Len(lines) = 3
    /\ lines[1].x[NumEvolutionTimes] = I(100)
    /\ lines[1].y[NumEvolutionTimes] =
          Div(calculate_time_to_snr(Configurations[1], Q(1, 10), I(5)), I(60))

(***************************************************************************)
(* Properties of delta_function                                            *)
(***************************************************************************)
\* C9: for width > 0, delta_function is amplitude at x = center and
\* amplitude / 2 at x = center + width/2 and at x = center - width/2.
C9_FullWidthHalfMax ==
    (Returned("delta_function") /\ Less(I(0), args.width)) =>
        /\ args.x = args.center => ret = args.amplitude
        /\ args.x = Add(args.center, Div(args.width, I(2))) => ret = Div(args.amplitude, I(2))
        /\ args.x = Sub(args.center, Div(args.width, I(2))) => ret = Div(args.amplitude, I(2))

C9_Witness ==
    /\ Returned("delta_function")
    /\ args.width = Q(1, 10) /\ args.center = I(1) /\ args.amplitude = I(3)
    /\ args.x = Q(19, 20)
    /\ ret = Q(3, 2)

(***************************************************************************)
(* Argument checking                                                       *)
(***************************************************************************)
\* a call that ended by raising an invalid-argument error
Raised(v) == v.k = "raise"

\* C5: a call with a non-positive photon_count_rate or readout_time
\* (calculate_time_to_snr) or a non-positive d (f) raises an invalid-argument
\* error and returns no value.
C5_InvalidArgumentsRaise ==
    /\ (Returned("calculate_time_to_snr")
          /\ (Leq(args.params.photon_count_rate, I(0)) \/ Leq(args.params.readout_time, I(0))))
       => Raised(ret)
    /\ (Returned("f") /\ Leq(args.d, I(0))) => Raised(ret)

(***************************************************************************)
(* Properties of the sombrero potential                                    *)
(***************************************************************************)
\* C10: with V = mu*r^2 + lambda*r^4 (mu the coefficient of r^2: mu in
\* sombrero_potential.py, -mu_sq in sombrero_sonnet.py), in every frame with
\* mu >= 0 the potential is >= 0 at every grid point, and it is 0 at the
\* origin.
C10_NonNegative ==
    /\ (mode = "sombrero_potential" /\ frame >= 0 /\ Leq(I(0), mu)) =>
          /\ \A p \in SamplePoints : Leq(I(0), Z[p])
          /\ potential_Z(I(0), I(0), mu) = I(0)
    /\ (mode = "sombrero_sonnet" /\ frame >= 0 /\ Leq(I(0), Neg(mu_sq))) =>
          /\ \A p \in SamplePoints : Leq(I(0), V[p])
          /\ sonnet_V(I(0), I(0), mu_sq) = I(0)

C10_Witness ==
    /\ mode = "sombrero_potential"
    /\ frame = 24
    /\ mu = I(1)
    /\ Z[<<0, 0>>] = I(342)

\* the claimed ring of minima: r^2 = -mu / (2 * lambda)
RingRSquared(m, lam) == Div(Neg(m), Mul(I(2), lam))

\* V is quadratic in s = r^2, so dV/dr = 2r * (mu + 2*lambda*s) vanishes at
\* s0 > 0 exactly when V(s0 + h) = V(s0 - h); h is taken as s0 / 2.
PotentialRing(m) ==
    LET s0 == RingRSquared(m, I(1))
        h  == Div(s0, I(2))
    IN  [s0 |-> s0,
         at |-> potential_Z(Sqrt(s0), I(0), m),
         outside |-> potential_Z(Sqrt(Add(s0, h)), I(0), m),
         inside |-> potential_Z(I(0), Sqrt(Sub(s0, h)), m),
         origin |-> potential_Z(I(0), I(0), m)]

SonnetRing(msq) ==
    LET s0 == RingRSquared(Neg(msq), lambda_param)
        h  == Div(s0, I(2))
    IN  [s0 |-> s0,
         at |-> sonnet_V(Sqrt(s0), I(0), msq),
         outside |-> sonnet_V(Sqrt(Add(s0, h)), I(0), msq),
         inside |-> sonnet_V(I(0), Sqrt(Sub(s0, h)), msq),
         origin |-> sonnet_V(I(0), I(0), msq)]

\* C11: in every frame with mu < 0 (mu the coefficient of r^2), the ring
\* r^2 = -mu/(2*lambda) lies away from the origin, the radial gradient
\* vanishes on it, and the potential on it is below the potential at the
\* origin and no greater than the potential at any grid point.
C11_RingOfMinima ==
    /\ (mode = "sombrero_potential" /\ frame >= 0 /\ Less(mu, I(0))) =>
          LET ring == PotentialRing(mu)
          IN  /\ Less(I(0), ring.s0)
              /\ ring.outside = ring.inside
              /\ Less(ring.at, ring.outside)
              /\ Less(ring.at, ring.origin)
              /\ \A p \in SamplePoints : Leq(ring.at, Z[p])
    /\ (mode = "sombrero_sonnet" /\ frame >= 0 /\ Less(Neg(mu_sq), I(0))) =>
          LET ring == SonnetRing(mu_sq)
          IN  /\ Less(I(0), ring.s0)
              /\ ring.outside = ring.inside
              /\ Less(ring.at, ring.outside)
              /\ Less(ring.at, ring.origin)
              /\ \A p \in SamplePoints : Leq(ring.at, V[p])

C11_Witness ==
    /\ mode = "sombrero_sonnet"
    /\ frame = sonnet_n_frames - 1
    /\ mu_sq = I(3)
    /\ SonnetRing(mu_sq).s0 = I(3)
    /\ SonnetRing(mu_sq).at = Q(-9, 2)
    /\ V[<<0, 0>>] = Q(27, 2)

(***************************************************************************)
(* Properties of the kernel ridge                                          *)
(***************************************************************************)
\* the claimed position of the maximum over q
QStar(d) == Div(I(3), Mul(I(2), d))

Within(x, y, tol) == Leq(Sub(x, y), tol) /\ Leq(Sub(y, x), tol)

\* f(., d) rises up to qs and falls after it, on the trial points and qs
SingleMaximumAt(qs, d) ==
    LET pts == TrialPoints \cup {qs}
    IN  \A q1, q2 \in pts :
          Less(q1, q2) =>
            /\ Leq(q2, qs) => KernelLess(f(q1, d), f(q2, d))
            /\ Leq(qs, q1) => KernelLess(f(q2, d), f(q1, d))

GifDone == mode = "double_gif_speed" /\ pc = "done"

\* C14: for an input of n >= 1 frames the saved GIF has n frames, in the
\* order of the input; output frame i lasts max(1, d_i // 2) ms, d_i being the
\* duration of input frame i (100 when it has none); so every output
\* duration is at least 1 ms and none exceeds d_i unless d_i = 0.
C14_HalvedDurations ==
    GifDone =>
        LET n == Len(original_gif)
            out == output_gif.file
        IN  /\ n >= 1
            /\ Len(out) = n
            /\ \A i \in 1..n :
                  /\ out[i].picture = original_gif[i].picture
                  /\ out[i].duration = Max(1, frame_duration(original_gif[i]) \div 2)
                  /\ out[i].duration >= 1
                  /\ frame_duration(original_gif[i]) # 0 =>
                        out[i].duration <= frame_duration(original_gif[i])

(***************************************************************************)
(* Properties of the sombrero animations                                   *)
(***************************************************************************)
\* the frames are drawn in order, and from each frame to the next mu falls
\* (sombrero_potential.py) or mu^2 rises by one 29th of 3.5 (sombrero_sonnet.py)
FrameStep ==
    /\ (mode = "sombrero_potential" /\ frame' # frame) =>
          /\ frame' = frame + 1
          /\ frame >= 0 => Less(mu', mu)
    /\ (mode = "sombrero_sonnet" /\ frame' # frame) =>
          /\ frame' = frame + 1
          /\ frame >= 0 => Sub(mu_sq', mu_sq) = Q(7, 58)

\* the first frame and the last frame lie on opposite sides of zero, and the
\* animation ends only after the last frame
FrameEnds ==
    /\ (mode = "sombrero_potential" /\ frame >= 0) =>
          /\ mu = Sub(I(2), Mul(Q(5, 2), Q(frame, 60)))
          /\ frame = 0 => mu = I(2)
          /\ frame = 59 => Less(mu, I(0))
          /\ pc = "done" => frame = 59
    /\ (mode = "sombrero_sonnet" /\ frame >= 0) =>
          /\ frame = 0 => mu_sq = Q(-1, 2)
          /\ frame = 29 => mu_sq = I(3)
          /\ pc = "done" => frame = 29

\* C15: over the frames of each animation mu is strictly monotone, starts on
\* one side of zero and ends on the other (so it changes sign exactly once):
\* mu_k = 2.0 - 2.5*k/60 from 2.0 at k = 0 to a negative value at k = 59, and
\* mu^2 in 30 equally spaced values from -0.5 to 3.
C15_MuCrossesZeroOnce == []FrameEnds /\ [][FrameStep]_vars

C15_Witness ==
    /\ mode = "sombrero_potential"
    /\ frame = 49
    /\ mu = Q(-1, 24)
    /\ potential_mu(48) = I(0)

(***************************************************************************)
(* Properties of the T1 decay fit                                          *)
(***************************************************************************)
T1 == mode = "plot_T1_decay"
FitCalled == T1 /\ fit # None
InCurveFit == T1 /\ pc \in {"lm_outer", "lm_inner", "lm_exit"}

\* C6 (as stated): a fit that did not converge, or whose covariance could not
\* be estimated, is a failure: no standard errors are computed from it and
\* no fit curve is drawn.
C6_FailedFitNotUsed ==
    (FitCalled /\ fit.outcome \in {"not_converged", "singular_covariance"}) =>
        (t1.perr = None /\ t1.fit_signal = None)

\* C7 (as stated): the fit never makes more than maxfev = 10000 evaluations.
C7_NeverPastCap == T1 => nfev <= maxfev

C7_Budget ==
    T1 =>
        /\ nfev <= maxfev + NumParams
        /\ pc = "lm_outer" => nfev < maxfev
        /\ pc = "lm_exit" => (info \in 1..8 /\ (info = 5 => nfev >= maxfev))
        /\ pc = "raised" => fit.outcome = "not_converged"
        /\ pc \in {"perr", "curve", "plot", "label", "done"} =>
              fit.outcome \in {"converged", "singular_covariance"}

\* C7 (amended): every fit call terminates, converged or stopped with a
\* non-convergence outcome at the first termination test that finds the
\* evaluation count at or above maxfev = 10000; no iteration starts after
\* that, but the count itself can reach maxfev + 3 (the Jacobian and the
\* trial point of the last iteration are evaluated before the test).
C7_BoundedBudget == []C7_Budget /\ (InCurveFit ~> ~InCurveFit)

C7_Witness == T1 /\ pc = "lm_exit" /\ info = 5 /\ nfev = maxfev + NumParams

\* C8: the fit is seeded with A0 = max signal, tau0 = half the span of the
\* fitted time axis (same unit), gamma0 = 1, weighted with the error column
\* as sigma; each reported standard error squared is the diagonal entry of
\* the covariance matrix.
C8_SeedsAndErrors ==
    FitCalled =>
        /\ \E i \in 1..Len(data) : fit.p0[1] = data[i][2]
        /\ \A i \in 1..Len(data) : Leq(data[i][2], fit.p0[1])
        /\ Mul(I(2), fit.p0[2]) = Sub(ArrMax(fit.xdata), ArrMin(fit.xdata))
        /\ fit.p0[3] = I(1)
        /\ fit.ydata = Column(data, 2)
        /\ fit.sigma = Column(data, 3)
        /\ t1.perr # None =>
              \A i \in 1..NumParams : Mul(t1.perr[i], t1.perr[i]) = t1.pcov[i][i]

C8_Witness ==
    /\ T1 /\ pc = "curve"
    /\ fit.outcome = "converged"
    /\ fit.p0 = <<I(3), Q(95, 2), I(1)>>
    /\ t1.perr = <<Q(1, 10), I(2), Q(1, 20)>>

\* the legend label of the fit carries the parameter text
ParamsInLabel == \E i \in 1..Len(t1.fit_label) : t1.fit_label[i] = params_legend(t1)

\* C16: the label of the fit in the legend includes the fit parameters
\* exactly when --hide-params is not given: shown by default, hidden by the
\* flag.
C16_ParamsShownUnlessHidden ==
    (T1 /\ pc = "done") => (ParamsInLabel <=> ~t1.hide_params)

=============================================================================
